---- MODULE Spec2Model ----
(***************************************************************************)
(* Model of src/main.py: the batch stages batch_transcode and batch_resize *)
(* (with single_upscale and get_dimension), their worker pools, the files  *)
(* they read and write and the external tools they spawn; and of          *)
(* MainMenu.multiple_pack, which runs the stages over each pack, archives  *)
(* the stage directories with single_compress and reports to the notifier. *)
(*                                                                         *)
(* A path is a record [dir, stem, ext]: dir is the sequence of directory   *)
(* segments, each segment a sequence of tokens joined by "_" ("a_jxl" is   *)
(* <<"a", "jxl">>), stem the file name without extension and ext the       *)
(* sequence of extensions ("x.png.png" has ext <<"png", "png">>).          *)
(***************************************************************************)
EXTENDS Integers, Sequences, FiniteSets, TLC

\* ------------------------------------------------------------------ bounds
MaxItems == 2      \* longest input list handed to a batch call
MaxThreads == 2    \* largest thread count a caller asks for
MaxRuns == 2       \* how often the same stage is run in a row
MaxSide == 4       \* largest width and height ffprobe reports in the scale runs
MaxTarget == 9     \* largest target_width and target_height in the scale runs
MaxDepth == 3      \* deepest input directory handed to single_compress directly

\* ------------------------------------------------------------------- paths
Path(dir, stem, ext) == [dir |-> dir, stem |-> stem, ext |-> ext]

NoPath == Path(<<>>, "", <<>>)

\* The files of the working directory a stage can be given, in listing order:
\* a/x.png, a/x.jpg and the top-level y.png.
FileList ==
    << Path(<< <<"a">> >>, "x", <<"png">>),
       Path(<< <<"a">> >>, "x", <<"jpg">>),
       Path(<<>>, "y", <<"png">>) >>

RECURSIVE SubSeqsFrom(_, _)
\* The sub-sequences of s that start at index k or later (order kept).
SubSeqsFrom(s, k) ==
    IF k > Len(s) THEN { <<>> }
    ELSE LET rest == SubSeqsFrom(s, k + 1)
         IN  rest \cup { <<s[k]>> \o r : r \in rest }

InputLists == { l \in SubSeqsFrom(FileList, 1) : Len(l) <= MaxItems }

\* os.path.dirname of a path: its directory segments ("" when there are none).
Dirname(p) == p.dir

\* The output path of batch_transcode / batch_resize for an input path:
\* the first segment gets "_<suffix>" when the file sits in a folder, and the
\* extension of the last element is replaced by ext.
DerivePath(p, suffix, ext) ==
    Path(IF Len(p.dir) + 1 > 1 THEN [p.dir EXCEPT ![1] = Append(@, suffix)] ELSE p.dir,
         p.stem,
         SubSeq(p.ext, 1, Len(p.ext) - 1) \o <<ext>>)

\* f"{output_path}.png"
PlusPng(p) == Path(p.dir, p.stem, Append(p.ext, "png"))

\* os.makedirs(d): d and every ancestor of d now exist.
MakeDirs(ds, d) == ds \cup { SubSeq(d, 1, k) : k \in 1..Len(d) }

RECURSIVE PlanDirs(_, _, _)
\* The directories after the path loop has run over outs[k..].
PlanDirs(ds, outs, k) ==
    IF k > Len(outs) THEN ds
    ELSE LET out_dir == Dirname(outs[k])
         IN  PlanDirs(IF out_dir /= <<>> /\ out_dir \notin ds THEN MakeDirs(ds, out_dir) ELSE ds,
                      outs, k + 1)

\* ------------------------------------------------------------ file system
Exists(f, p) == p \in DOMAIN f

Put(f, p, v) == [q \in DOMAIN f \cup {p} |-> IF q = p THEN v ELSE f[q]]

Del(f, p) == [q \in DOMAIN f \ {p} |-> f[q]]

\* What an external tool leaves at its output path: nothing new, a
\* zero-length file, or a file with content.
Effects == {"none", "empty", "full"}

Write(f, p, e) == IF e = "none" THEN f ELSE Put(f, p, e)

\* os.path.getsize(p) > 0
NonEmpty(f, p) == f[p] = "full"

\* ------------------------------------------------------------------ values
\* A string or a path, as found in a helper's result and in the reports.
StrVal(s) == [tag |-> "str", path |-> NoPath, msg |-> s]

PathVal(p) == [tag |-> "path", path |-> p, msg |-> ""]

\* ------------------------------------------------------------------- state
VARIABLES
    kind,            \* the stage being run: "transcode" or "resize"
    input_paths,     \* the input list of the call
    format,          \* batch_transcode's format
    overwrite,       \* batch_transcode's overwrite / bool_env["overwrite"]
    threads,         \* the thread count the caller asks for
    target_width,    \* batch_resize's target_width
    target_height,   \* batch_resize's target_height
    image,           \* what ffprobe prints for each input file
    fs,              \* the files that exist, each "empty" or "full"
    dirs,            \* the directories that exist
    callState,       \* "idle", "running", "unwinding", "returned" or "raised"
    output_paths,    \* the output path planned for each input
    pc,              \* each item's position in its helper
    result,          \* each finished helper's return value or exception
    log,             \* the external processes spawned for each item, in order
    rc,              \* the exit code of each item's last transcoder process
    dims,            \* the width and height the helper got from get_dimension
    return_data,     \* batch_transcode's report under construction
    failed,          \* batch_resize's failed list under construction
    ret,             \* the value the call returned
    run,             \* the number of the current run of the stage
    prev             \* each item's outcome in the previous run

VARIABLES
    reprocess,       \* multiple_pack's reprocess flag
    packs,           \* the folders multiple_pack works through
    pack_idx,        \* the number of the pack of the current loop iteration
    ppc,             \* multiple_pack's position: the step it is about to take
    raised_by,       \* where the exception that left multiple_pack came from
    images,          \* the list handed to the jxl and resize stages
    upscaled_dir,    \* the directory batch_resize returned
    cwd,             \* the process's working directory, relative to where it started
    compress_dir,    \* input_path of the single_compress call last entered
    archFailed,      \* the directories for which the archiver exited non-zero
    resized,         \* the files the resize stage of the current pack wrote
    avif_in,         \* the list enumerated as the avif stage's input
    avif_root,       \* the directory the avif stage's outputs are planned under
    zip_dir          \* the directory handed to the zip archive step

history == <<archFailed, resized, avif_in, avif_root, zip_dir>>

pipeline == <<reprocess, packs, pack_idx, ppc, raised_by, images, upscaled_dir, cwd, compress_dir, history>>

params == <<kind, input_paths, format, overwrite, threads, target_width, target_height, image>>

items == <<pc, result, log, rc, dims>>

batch == <<params, callState, output_paths, items, return_data, failed, ret, run, prev>>

vars == <<params, pipeline, fs, dirs, callState, output_paths, items, return_data, failed, ret, run, prev>>

Items == 1..Len(input_paths)

Formats == {"avif", "jxl", "png"}

\* The (target_width, target_height) pairs callers pass.
Targets == { <<0, 0>>, <<5, 0>>, <<0, 5>> }

\* What ffprobe prints for a file: "<w>x<h>", or something int() cannot parse.
Parsed(w, h) == [parse |-> TRUE, w |-> w, h |-> h]

Garbage == [parse |-> FALSE, w |-> 0, h |-> 0]

Images == { Garbage, Parsed(1, 1), Parsed(2, 2), Parsed(5, 5) }

NoResult == [exc |-> "", status |-> "none", ok |-> FALSE, val |-> StrVal("")]

\* return (status, path) of batch_transcode's helper
Returned(status, val) == [exc |-> "", status |-> status, ok |-> FALSE, val |-> val]

\* return (ok, str) of batch_resize's helper and of single_upscale
ReturnedOk(ok, val) == [exc |-> "", status |-> "", ok |-> ok, val |-> val]

Raised(exc) == [exc |-> exc, status |-> "", ok |-> FALSE, val |-> StrVal("")]

\* One spawned process: the binary, -s and -n of the upscaler, -vf "scale=w:h" of ffmpeg.
NoFilter == <<0, 0>>

Proc(tool, scale, model, filter) == [tool |-> tool, scale |-> scale, model |-> model, filter |-> filter]

EmptyReport == [s \in {"failed", "skipped", ""} |-> <<>>]

Range(s) == { s[i] : i \in DOMAIN s }

\* The working directory before the stage runs: the input files and their folders.
InitFs == [p \in Range(FileList) |-> "full"]

InitDirs == UNION { MakeDirs({}, Dirname(p)) : p \in Range(FileList) }

\* multiple_pack is not running.
NoPipeline ==
    /\ reprocess = FALSE
    /\ packs = <<>>
    /\ pack_idx = 0
    /\ ppc = "off"
    /\ raised_by = ""
    /\ images = <<>>
    /\ upscaled_dir = <<>>
    /\ cwd = <<>>
    /\ compress_dir = <<>>
    /\ archFailed = {}
    /\ resized = {}
    /\ avif_in = <<>>
    /\ avif_root = <<>>
    /\ zip_dir = <<>>

Fresh(n) ==
    /\ NoPipeline
    /\ fs = InitFs
    /\ dirs = InitDirs
    /\ callState = "idle"
    /\ output_paths = <<>>
    /\ pc = [i \in 1..n |-> "idle"]
    /\ result = [i \in 1..n |-> NoResult]
    /\ log = [i \in 1..n |-> <<>>]
    /\ rc = [i \in 1..n |-> 0]
    /\ dims = [i \in 1..n |-> <<0, 0>>]
    /\ return_data = EmptyReport
    /\ failed = <<>>
    /\ ret = <<>>
    /\ run = 1
    /\ prev = [i \in 1..n |-> "none"]

InitTranscode ==
    /\ kind = "transcode"
    /\ input_paths \in InputLists
    /\ format \in Formats
    /\ overwrite \in BOOLEAN
    /\ threads \in 1..MaxThreads
    /\ target_width = 0
    /\ target_height = 0
    /\ image = [p \in {} |-> Garbage]
    /\ Fresh(Len(input_paths))

InitResize ==
    /\ kind = "resize"
    /\ input_paths \in InputLists
    /\ format = "png"
    /\ overwrite \in BOOLEAN
    /\ threads \in 1..MaxThreads
    /\ \E t \in Targets : target_width = t[1] /\ target_height = t[2]
    /\ image \in [Range(input_paths) -> Images]
    /\ Fresh(Len(input_paths))

Init == InitTranscode \/ InitResize

\* ------------------------------------------------------------- worker pool
\* A thread count that is never capped.
TranscodeThreads_NoCap(fmt, n) == n

\* if format in ("avif", "mp4"): threads = 1
TranscodeThreads(fmt, n) == IF fmt \in {"avif", "mp4"} THEN 1 ELSE n

\* batch_transcode runs its helper in a pool only if threads > 1; batch_resize always.
Pooled == kind = "resize" \/ TranscodeThreads(format, threads) > 1

\* max_workers of the pool, 1 for the plain loop
Workers == IF kind = "resize" THEN threads ELSE TranscodeThreads(format, threads)

Active == { i \in Items : pc[i] \notin {"idle", "queued", "finished", "collected"} }

\* A pool that starts a thread for every submitted task.
PoolFree_Unbounded(n, active) == TRUE

\* A free worker takes the oldest queued task.
PoolFree(n, active) == Cardinality(active) < n

\* The plain loop calls the helper for item i after it has folded item i-1.
LoopTurn(i) == \A j \in 1..(i - 1) : pc[j] = "collected"

CanStart(i) ==
    /\ callState \in {"running", "unwinding"}
    /\ pc[i] = "queued"
    /\ \A j \in 1..(i - 1) : pc[j] /= "queued"
    /\ IF Pooled THEN PoolFree(Workers, Active) ELSE LoopTurn(i)

Finish(i, r) ==
    /\ pc' = [pc EXCEPT ![i] = "finished"]
    /\ result' = [result EXCEPT ![i] = r]

Spawn(i, p) == log' = [log EXCEPT ![i] = Append(@, p)]

\* --------------------------------------------------------- batch_transcode
TranscodeCall ==
    /\ kind = "transcode"
    /\ callState = "idle"
    /\ IF Len(input_paths) = 0
       THEN /\ callState' = "returned"
            /\ ret' = << <<>>, <<>> >>
            /\ UNCHANGED <<dirs, output_paths, pc>>
       ELSE /\ output_paths' = [i \in Items |-> DerivePath(input_paths[i], format, format)]
            /\ dirs' = PlanDirs(dirs, output_paths', 1)
            /\ pc' = [i \in Items |-> "queued"]
            /\ callState' = "running"
            /\ UNCHANGED ret
    /\ UNCHANGED <<params, pipeline, fs, result, log, rc, dims, return_data, failed, run, prev>>

\* The binary of commands[format]; ffmpeg becomes ffpb when threads <= 1.
TranscodeTool(fmt, n) ==
    IF fmt = "jxl" THEN "cjxl" ELSE IF n > 1 THEN "ffmpeg" ELSE "ffpb"

\* A skip test with the overwrite flag inverted.
SkipTranscode_Inverted(f, out, ow) == Exists(f, out) /\ ow

\* if os.path.exists(output_path) and not overwrite: return "skipped", input_path
SkipTranscode(f, out, ow) == Exists(f, out) /\ ~ow

TranscodeStart(i) ==
    /\ kind = "transcode"
    /\ CanStart(i)
    /\ IF SkipTranscode(fs, output_paths[i], overwrite)
       THEN /\ Finish(i, Returned("skipped", PathVal(input_paths[i])))
            /\ UNCHANGED log
       ELSE /\ pc' = [pc EXCEPT ![i] = "transcoding"]
            /\ Spawn(i, Proc(TranscodeTool(format, TranscodeThreads(format, threads)), 0, "", NoFilter))
            /\ UNCHANGED result
    /\ UNCHANGED <<params, pipeline, fs, dirs, callState, output_paths, rc, dims, return_data, failed, ret, run, prev>>

\* The transcoder process ends: any exit code, any effect on its output path.
TranscodeExit(i) ==
    /\ pc[i] = "transcoding"
    /\ \E e \in Effects, code \in {0, 1} :
        /\ fs' = Write(fs, output_paths[i], e)
        /\ rc' = [rc EXCEPT ![i] = code]
    /\ pc' = [pc EXCEPT ![i] = "exited"]
    /\ UNCHANGED <<params, pipeline, dirs, callState, output_paths, result, log, dims, return_data, failed, ret, run, prev>>

\* A helper that trusts the exit code instead of the output artifact.
TranscodeStatus_TrustExit(f, out, code) ==
    IF code = 0 THEN "" ELSE "failed"

\* The helper's verdict once subprocess.run has returned with exit code `code`.
TranscodeStatus(f, out, code) ==
    IF Exists(f, out) /\ NonEmpty(f, out) THEN "" ELSE "failed"

\* A helper that appends its own outcome to the shared report.
TranscodeVerify_WritesReport(i) ==
    /\ pc[i] = "exited"
    /\ LET status == TranscodeStatus(fs, output_paths[i], rc[i])
       IN  /\ Finish(i, IF status = "" THEN Returned("", StrVal(""))
                        ELSE Returned(status, PathVal(input_paths[i])))
           /\ return_data' = [return_data EXCEPT ![status] = Append(@, PathVal(input_paths[i]))]
    /\ UNCHANGED <<params, pipeline, fs, dirs, callState, output_paths, log, rc, dims, failed, ret, run, prev>>

TranscodeVerify(i) ==
    /\ pc[i] = "exited"
    /\ LET status == TranscodeStatus(fs, output_paths[i], rc[i])
       IN  Finish(i, IF status = "" THEN Returned("", StrVal(""))
                     ELSE Returned(status, PathVal(input_paths[i])))
    /\ UNCHANGED <<params, pipeline, fs, dirs, callState, output_paths, log, rc, dims, return_data, failed, ret, run, prev>>

\* status, path = future.result(); return_data[status].append(path)
TranscodeCollect(i) ==
    /\ kind = "transcode"
    /\ callState = "running"
    /\ pc[i] = "finished"
    /\ pc' = [pc EXCEPT ![i] = "collected"]
    /\ IF result[i].exc /= ""
       THEN /\ callState' = "unwinding"
            /\ UNCHANGED return_data
       ELSE /\ return_data' = [return_data EXCEPT ![result[i].status] = Append(@, result[i].val)]
            /\ UNCHANGED callState
    /\ UNCHANGED <<params, pipeline, fs, dirs, output_paths, result, log, rc, dims, failed, ret, run, prev>>

TranscodeReturn ==
    /\ kind = "transcode"
    /\ callState = "running"
    /\ \A i \in Items : pc[i] = "collected"
    /\ callState' = "returned"
    /\ ret' = <<return_data["failed"], return_data["skipped"]>>
    /\ UNCHANGED <<params, pipeline, fs, dirs, output_paths, items, return_data, failed, run, prev>>

\* ----------------------------------------------------------- get_dimension
NoDimension == <<-1, -1>>

\* get_dimension for an ffprobe run that ended with exit code `code` and printed
\* `img`: (-1, -1) on a non-zero exit, ValueError when the output does not parse.
GetDimensionRaises(code, img) == code = 0 /\ ~img.parse

GetDimension(code, img) == IF code /= 0 THEN NoDimension ELSE <<img.w, img.h>>

\* ---------------------------------------------------------- single_upscale
\* math.ceil(a / b) for a >= 0, b > 0
Ceil(a, b) == (a + b - 1) \div b

Max(a, b) == IF a >= b THEN a ELSE b

WidthOnly(tw, th) == tw /= 0 /\ th = 0

HeightOnly(tw, th) == tw = 0 /\ th /= 0

\* The division single_upscale does raises ZeroDivisionError on a zero dimension.
ScaleRaises(w, h, tw, th) ==
    IF WidthOnly(tw, th) THEN w = 0
    ELSE IF HeightOnly(tw, th) THEN h = 0
    ELSE w = 0 \/ h = 0

\* A scale that rounds down instead of up.
UpscaleFactor_Floor(w, h, tw, th) ==
    IF WidthOnly(tw, th) THEN tw \div w
    ELSE IF HeightOnly(tw, th) THEN th \div h
    ELSE Max(tw \div w, th \div h)

\* scale, as passed to the upscaler with -s
UpscaleFactor(w, h, tw, th) ==
    IF WidthOnly(tw, th) THEN Ceil(tw, w)
    ELSE IF HeightOnly(tw, th) THEN Ceil(th, h)
    ELSE Max(Ceil(tw, w), Ceil(th, h))

UpscaleModel(scale) == IF scale = 4 THEN "realesrgan-x4plus-anime" ELSE "realesr-animevideov3"

\* No corrective downscale, whatever the upscaled size.
DoResize_Never(w, h, scale, tw, th) == FALSE

\* do_resize: the upscaled image overshoots the target
DoResize(w, h, scale, tw, th) ==
    IF WidthOnly(tw, th) THEN w * scale > tw
    ELSE IF HeightOnly(tw, th) THEN h * scale > th
    ELSE w * scale > tw \/ h * scale > th

ResizeFilter(tw, th) ==
    IF WidthOnly(tw, th) THEN <<tw, -1>>
    ELSE IF HeightOnly(tw, th) THEN <<-1, th>>
    ELSE <<tw, th>>

\* if os.path.exists(output_path): return True, input_path
UpscaleVerdict(f, out, input) ==
    IF Exists(f, out) THEN ReturnedOk(TRUE, PathVal(input))
    ELSE ReturnedOk(FALSE, StrVal("Downscaling after upscaling failed"))

\* single_upscale up to its first subprocess: the zero-target check, then ffprobe.
UpscaleStart(i) ==
    IF target_width = 0 /\ target_height = 0
    THEN /\ Finish(i, ReturnedOk(FALSE, StrVal("Both target width and height cannot be 0")))
         /\ UNCHANGED log
    ELSE /\ pc' = [pc EXCEPT ![i] = "probing2"]
         /\ Spawn(i, Proc("ffprobe", 0, "", NoFilter))
         /\ UNCHANGED result

\* single_upscale's own ffprobe ends; on exit code 0 the upscaler is spawned.
UpscaleProbeExit(i) ==
    /\ pc[i] = "probing2"
    /\ \E code \in {0, 1} :
        IF code /= 0
        THEN /\ Finish(i, ReturnedOk(FALSE, StrVal("stderr")))
             /\ UNCHANGED log
        ELSE IF ScaleRaises(dims[i][1], dims[i][2], target_width, target_height)
        THEN /\ Finish(i, Raised("ZeroDivisionError"))
             /\ UNCHANGED log
        ELSE LET scale == UpscaleFactor(dims[i][1], dims[i][2], target_width, target_height)
             IN  /\ pc' = [pc EXCEPT ![i] = "upscaling"]
                 /\ Spawn(i, Proc("realesrgan-ncnn-vulkan", scale, UpscaleModel(scale), NoFilter))
                 /\ UNCHANGED result
    /\ UNCHANGED <<params, pipeline, fs, dirs, callState, output_paths, rc, dims, return_data, failed, ret, run, prev>>

\* The upscaler ends, with any effect on output_path.
UpscaleExit(i) ==
    /\ pc[i] = "upscaling"
    /\ \E e \in Effects : fs' = Write(fs, output_paths[i], e)
    /\ pc' = [pc EXCEPT ![i] = "upscaled"]
    /\ UNCHANGED <<params, pipeline, dirs, callState, output_paths, result, log, rc, dims, return_data, failed, ret, run, prev>>

\* After the upscaler: spawn the corrective downscale if needed, else the verdict.
UpscaleAfter(i) ==
    /\ pc[i] = "upscaled"
    /\ LET scale == log[i][Len(log[i])].scale
       IN  IF DoResize(dims[i][1], dims[i][2], scale, target_width, target_height)
           THEN /\ pc' = [pc EXCEPT ![i] = "correcting"]
                /\ Spawn(i, Proc("ffmpeg", 0, "", ResizeFilter(target_width, target_height)))
                /\ UNCHANGED result
           ELSE /\ Finish(i, UpscaleVerdict(fs, output_paths[i], input_paths[i]))
                /\ UNCHANGED log
    /\ UNCHANGED <<params, pipeline, fs, dirs, callState, output_paths, rc, dims, return_data, failed, ret, run, prev>>

\* The corrective ffmpeg ends, with any effect on <output_path>.png.
CorrectExit(i) ==
    /\ pc[i] = "correcting"
    /\ \E e \in Effects : fs' = Write(fs, PlusPng(output_paths[i]), e)
    /\ pc' = [pc EXCEPT ![i] = "corrected"]
    /\ UNCHANGED <<params, pipeline, dirs, callState, output_paths, result, log, rc, dims, return_data, failed, ret, run, prev>>

\* os.remove(output_path)
CorrectRemove(i) ==
    /\ pc[i] = "corrected"
    /\ IF Exists(fs, output_paths[i])
       THEN /\ fs' = Del(fs, output_paths[i])
            /\ pc' = [pc EXCEPT ![i] = "removed"]
            /\ UNCHANGED result
       ELSE /\ Finish(i, Raised("FileNotFoundError"))
            /\ UNCHANGED fs
    /\ UNCHANGED <<params, pipeline, dirs, callState, output_paths, log, rc, dims, return_data, failed, ret, run, prev>>

\* os.rename(f"{output_path}.png", output_path)
CorrectRename(i) ==
    /\ pc[i] = "removed"
    /\ LET tmp == PlusPng(output_paths[i])
       IN  IF Exists(fs, tmp)
           THEN /\ fs' = Put(Del(fs, tmp), output_paths[i], fs[tmp])
                /\ pc' = [pc EXCEPT ![i] = "renamed"]
                /\ UNCHANGED result
           ELSE /\ Finish(i, Raised("FileNotFoundError"))
                /\ UNCHANGED fs
    /\ UNCHANGED <<params, pipeline, dirs, callState, output_paths, log, rc, dims, return_data, failed, ret, run, prev>>

\* The verdict after the corrective downscale.
CorrectVerify(i) ==
    /\ pc[i] = "renamed"
    /\ Finish(i, UpscaleVerdict(fs, output_paths[i], input_paths[i]))
    /\ UNCHANGED <<params, pipeline, fs, dirs, callState, output_paths, log, rc, dims, return_data, failed, ret, run, prev>>

\* ------------------------------------------------------------ batch_resize
ResizeCall ==
    /\ kind = "resize"
    /\ callState = "idle"
    /\ IF input_paths = <<>>
       THEN /\ callState' = "returned"
            /\ ret' = <<>>
            /\ UNCHANGED <<dirs, output_paths, pc>>
       ELSE /\ output_paths' = [i \in Items |-> DerivePath(input_paths[i], "upscaled", "png")]
            /\ dirs' = PlanDirs(dirs, output_paths', 1)
            /\ pc' = [i \in Items |-> "queued"]
            /\ callState' = "running"
            /\ UNCHANGED ret
    /\ UNCHANGED <<params, pipeline, fs, result, log, rc, dims, return_data, failed, run, prev>>

\* if os.path.exists(output_path) and not bool_env["overwrite"]: return True, ""
SkipResize(f, out, ow) == Exists(f, out) /\ ~ow

ResizeStart(i) ==
    /\ kind = "resize"
    /\ CanStart(i)
    /\ IF SkipResize(fs, output_paths[i], overwrite)
       THEN /\ Finish(i, ReturnedOk(TRUE, StrVal("")))
            /\ UNCHANGED log
       ELSE /\ pc' = [pc EXCEPT ![i] = "probing"]
            /\ Spawn(i, Proc("ffprobe", 0, "", NoFilter))
            /\ UNCHANGED result
    /\ UNCHANGED <<params, pipeline, fs, dirs, callState, output_paths, rc, dims, return_data, failed, ret, run, prev>>

\* A direct downscale only for images strictly wider than the target.
DownscaleWidth_Strict(w, tw) == tw /= 0 /\ w > tw

\* The direct downscale applies when a target dimension is already met.
DownscaleWidth(w, tw) == tw /= 0 /\ w >= tw

DownscaleHeight(h, th) == th /= 0 /\ h >= th

\* get_dimension's ffprobe ends; the helper branches on the dimensions.
ResizeProbeExit(i) ==
    /\ pc[i] = "probing"
    /\ \E code \in {0, 1} :
        LET img == image[input_paths[i]]
            d == GetDimension(code, img)
        IN  IF GetDimensionRaises(code, img)
            THEN /\ Finish(i, Raised("ValueError"))
                 /\ UNCHANGED <<log, dims>>
            ELSE /\ dims' = [dims EXCEPT ![i] = d]
                 /\ IF d[1] = -1 \/ d[2] = -1
                    THEN /\ Finish(i, ReturnedOk(FALSE, PathVal(input_paths[i])))
                         /\ UNCHANGED log
                    ELSE IF DownscaleWidth(d[1], target_width)
                    THEN /\ pc' = [pc EXCEPT ![i] = "downscaling"]
                         /\ Spawn(i, Proc("ffmpeg", 0, "", <<target_width, -1>>))
                         /\ UNCHANGED result
                    ELSE IF DownscaleHeight(d[2], target_height)
                    THEN /\ pc' = [pc EXCEPT ![i] = "downscaling"]
                         /\ Spawn(i, Proc("ffmpeg", 0, "", <<-1, target_height>>))
                         /\ UNCHANGED result
                    ELSE UpscaleStart(i)
    /\ UNCHANGED <<params, pipeline, fs, dirs, callState, output_paths, rc, return_data, failed, ret, run, prev>>

\* The direct downscale ends, with any effect on output_path.
DownscaleExit(i) ==
    /\ pc[i] = "downscaling"
    /\ \E e \in Effects : fs' = Write(fs, output_paths[i], e)
    /\ pc' = [pc EXCEPT ![i] = "downscaled"]
    /\ UNCHANGED <<params, pipeline, dirs, callState, output_paths, result, log, rc, dims, return_data, failed, ret, run, prev>>

\* if os.path.exists(output_path): return True, ""  /  return False, input_path
DownscaleVerdict(f, out, input) ==
    IF Exists(f, out) THEN ReturnedOk(TRUE, StrVal("")) ELSE ReturnedOk(FALSE, PathVal(input))

DownscaleVerify(i) ==
    /\ pc[i] = "downscaled"
    /\ Finish(i, DownscaleVerdict(fs, output_paths[i], input_paths[i]))
    /\ UNCHANGED <<params, pipeline, fs, dirs, callState, output_paths, log, rc, dims, return_data, failed, ret, run, prev>>

\* if not future.result()[0]: failed.append(future.result()[1])
ResizeCollect(i) ==
    /\ kind = "resize"
    /\ callState = "running"
    /\ pc[i] = "finished"
    /\ pc' = [pc EXCEPT ![i] = "collected"]
    /\ IF result[i].exc /= ""
       THEN /\ callState' = "unwinding"
            /\ UNCHANGED failed
       ELSE /\ failed' = IF ~result[i].ok THEN Append(failed, result[i].val) ELSE failed
            /\ UNCHANGED callState
    /\ UNCHANGED <<params, pipeline, fs, dirs, output_paths, result, log, rc, dims, return_data, ret, run, prev>>

ResizeReturn ==
    /\ kind = "resize"
    /\ callState = "running"
    /\ \A i \in Items : pc[i] = "collected"
    /\ callState' = "returned"
    /\ ret' = <<failed, Dirname(output_paths[1])>>
    /\ UNCHANGED <<params, pipeline, fs, dirs, output_paths, items, return_data, failed, run, prev>>

\* An exception that leaves the batch call without waiting for the pool.
BatchRaise_NoJoin ==
    /\ callState = "unwinding"
    /\ callState' = "raised"
    /\ UNCHANGED <<params, pipeline, fs, dirs, output_paths, items, return_data, failed, ret, run, prev>>

\* future.result() re-raised a helper's exception: leaving the with block waits
\* for every submitted task, then the exception leaves the batch call.
BatchRaise ==
    /\ callState = "unwinding"
    /\ Pooled => \A i \in Items : pc[i] \in {"finished", "collected"}
    /\ callState' = "raised"
    /\ UNCHANGED <<params, pipeline, fs, dirs, output_paths, items, return_data, failed, ret, run, prev>>

\* ---------------------------------------------------------------- the caller
\* What the stage reported for item i: the helper's own verdict.
Outcome(i) ==
    IF result[i].exc /= "" THEN "raised"
    ELSE IF kind = "transcode"
         THEN (IF result[i].status = "" THEN "success" ELSE result[i].status)
         ELSE (IF result[i].ok THEN "success" ELSE "failed")

\* The operator runs the transcode stage again on the same input.
Rerun ==
    /\ kind = "transcode"
    /\ callState \in {"returned", "raised"}
    /\ run < MaxRuns
    /\ run' = run + 1
    /\ prev' = [i \in Items |-> Outcome(i)]
    /\ callState' = "idle"
    /\ output_paths' = <<>>
    /\ pc' = [i \in Items |-> "idle"]
    /\ result' = [i \in Items |-> NoResult]
    /\ log' = [i \in Items |-> <<>>]
    /\ rc' = [i \in Items |-> 0]
    /\ dims' = [i \in Items |-> <<0, 0>>]
    /\ return_data' = EmptyReport
    /\ failed' = <<>>
    /\ ret' = <<>>
    /\ UNCHANGED <<params, pipeline, fs, dirs>>

NextTranscode ==
    \/ TranscodeCall
    \/ \E i \in Items : TranscodeStart(i)
    \/ \E i \in Items : TranscodeExit(i)
    \/ \E i \in Items : TranscodeVerify(i)
    \/ \E i \in Items : TranscodeCollect(i)
    \/ TranscodeReturn
    \/ Rerun

NextResize ==
    \/ ResizeCall
    \/ \E i \in Items : ResizeStart(i)
    \/ \E i \in Items : ResizeProbeExit(i)
    \/ \E i \in Items : DownscaleExit(i)
    \/ \E i \in Items : DownscaleVerify(i)
    \/ \E i \in Items : UpscaleProbeExit(i)
    \/ \E i \in Items : UpscaleExit(i)
    \/ \E i \in Items : UpscaleAfter(i)
    \/ \E i \in Items : CorrectExit(i)
    \/ \E i \in Items : CorrectRemove(i)
    \/ \E i \in Items : CorrectRename(i)
    \/ \E i \in Items : CorrectVerify(i)
    \/ \E i \in Items : ResizeCollect(i)
    \/ ResizeReturn
    \/ BatchRaise

Next == NextTranscode \/ NextResize

SpecTranscode == InitTranscode /\ [][NextTranscode]_vars

SpecResize == InitResize /\ [][NextResize]_vars

Spec == Init /\ [][Next]_vars

\* batch_resize called on one image, over a range of probed sizes and targets.
InitScale ==
    /\ kind = "resize"
    /\ input_paths = << FileList[1] >>
    /\ format = "png"
    /\ overwrite \in BOOLEAN
    /\ threads \in 1..MaxThreads
    /\ target_width \in 0..MaxTarget
    /\ target_height \in 0..MaxTarget
    /\ image \in [Range(input_paths) -> { Parsed(w, h) : w \in 1..MaxSide, h \in 1..MaxSide }]
    /\ Fresh(Len(input_paths))

SpecScale == InitScale /\ [][NextResize]_vars

\* -------------------------------------------------------------- list_files
\* Directory d is e or an ancestor of e.
IsPrefix(d, e) == Len(d) <= Len(e) /\ SubSeq(e, 1, Len(d)) = d

\* The orders in which the elements of S can be listed.
Perms(S) ==
    { l \in [1..Cardinality(S) -> S] : \A i, j \in 1..Cardinality(S) : l[i] = l[j] => i = j }

\* list_files(root, exts, True): the files under root whose name ends with one
\* of exts, in an order os.listdir may yield.
ListFiles(f, root, exts) ==
    Perms({ p \in DOMAIN f : IsPrefix(root, p.dir) /\ p.ext /= <<>> /\ p.ext[Len(p.ext)] \in exts })

\* ----------------------------------------------------------- multiple_pack
\* The folders of the working directory, in the order they are processed.
PackNames == <<"p", "q">>

\* The images a pack can hold: <pack>/x.<ext> and <pack>/s/z.<ext>.
PackFiles(pack, ext) ==
    { Path(<< <<pack>> >>, "x", <<ext>>), Path(<< <<pack>>, <<"s">> >>, "z", <<ext>>) }

PackDir(pack) == << <<pack>> >>

\* pack + "_<suffix>"
StageDir(pack, suffix) == << <<pack, suffix>> >>

\* upscaled_dir + "_avif"
AvifDir(d) == [d EXCEPT ![Len(d)] = Append(@, "avif")]

MetadataJson == Path(<<>>, "metadata", <<"json">>)

\* The output paths a batch stage plans for its inputs, in input order.
Outs(ins, suffix, ext) == [i \in 1..Len(ins) |-> DerivePath(ins[i], suffix, ext)]

\* The files after a batch stage that wrote exactly the outputs W.
StageFs(f, W) == [q \in DOMAIN f \cup W |-> IF q \in W THEN "full" ELSE f[q]]

\* shutil.rmtree(d)
RmTreeFs(f, d) == [q \in { p \in DOMAIN f : ~IsPrefix(d, p.dir) } |-> f[q]]

RmTreeDirs(ds, d) == { e \in ds : ~IsPrefix(d, e) }

InitPack ==
    /\ kind = "pack"
    /\ input_paths = <<>>
    /\ format = "png"
    /\ overwrite = FALSE
    /\ threads = 1
    /\ target_width = 0
    /\ target_height = 0
    /\ image = [p \in {} |-> Garbage]
    /\ callState = "idle"
    /\ output_paths = <<>>
    /\ pc = <<>>
    /\ result = <<>>
    /\ log = <<>>
    /\ rc = <<>>
    /\ dims = <<>>
    /\ return_data = EmptyReport
    /\ failed = <<>>
    /\ ret = <<>>
    /\ run = 1
    /\ prev = <<>>
    /\ reprocess \in BOOLEAN
    /\ packs \in { SubSeq(PackNames, 1, n) : n \in 1..Len(PackNames) }
    /\ \E content \in [Range(packs) -> (SUBSET {"x", "z"}) \ {{}}] :
        LET files == UNION { { f \in PackFiles(pack, IF reprocess THEN "jxl" ELSE "png") :
                                 f.stem \in content[pack] } : pack \in Range(packs) }
        IN  /\ fs = [f \in files |-> "full"]
            /\ dirs = UNION { MakeDirs({}, Dirname(f)) : f \in files }
    /\ pack_idx = 0
    /\ ppc = "loop"
    /\ raised_by = ""
    /\ images = <<>>
    /\ upscaled_dir = <<>>
    /\ cwd = <<>>
    /\ compress_dir = <<>>
    /\ archFailed = {}
    /\ resized = {}
    /\ avif_in = <<>>
    /\ avif_root = <<>>
    /\ zip_dir = <<>>

\* for pack in packs: ... images = list_files(pack, [".png", ".jpg"], True)
PackList ==
    /\ ppc = "loop"
    /\ pack_idx < Len(packs)
    /\ pack_idx' = pack_idx + 1
    /\ \E l \in ListFiles(fs, PackDir(packs[pack_idx + 1]), {"png", "jpg"}) : images' = l
    /\ ppc' = IF reprocess THEN "png" ELSE "jxl"
    /\ resized' = {}
    /\ avif_in' = <<>>
    /\ avif_root' = <<>>
    /\ zip_dir' = <<>>
    /\ UNCHANGED <<batch, fs, dirs, reprocess, packs, raised_by, upscaled_dir, cwd, compress_dir, archFailed>>

\* reprocess: batch_transcode(list_files(pack, [".jxl"], True), "png", ...), then
\* images = list_files(pack + "_png", [".png"], True); os.listdir raises when
\* the directory was never made.
PngStage ==
    /\ ppc = "png"
    /\ \E ins \in ListFiles(fs, PackDir(packs[pack_idx]), {"jxl"}) :
        LET outs == Outs(ins, "png", "png")
            ds == PlanDirs(dirs, outs, 1)
        IN  \E W \in SUBSET Range(outs) :
                /\ fs' = StageFs(fs, W)
                /\ dirs' = ds
                /\ IF StageDir(packs[pack_idx], "png") \in ds
                   THEN /\ \E l \in ListFiles(fs', StageDir(packs[pack_idx], "png"), {"png"}) : images' = l
                        /\ ppc' = "resize"
                        /\ UNCHANGED raised_by
                   ELSE /\ ppc' = "raised"
                        /\ raised_by' = "list_files"
                        /\ UNCHANGED images
    /\ UNCHANGED <<batch, reprocess, packs, pack_idx, upscaled_dir, cwd, compress_dir, history>>

\* batch_transcode(images, "jxl", bool_env["overwrite"])
JxlStage ==
    /\ ppc = "jxl"
    /\ LET outs == Outs(images, "jxl", "jxl")
       IN  \E W \in SUBSET Range(outs) :
               /\ fs' = StageFs(fs, W)
               /\ dirs' = PlanDirs(dirs, outs, 1)
    /\ ppc' = "resize"
    /\ UNCHANGED <<batch, reprocess, packs, pack_idx, raised_by, images, upscaled_dir, cwd, compress_dir, history>>

\* failed_2_resize, upscaled_dir = batch_resize(images, target_width=2500, target_height=0):
\* the empty list comes back as [] and cannot be unpacked; a helper's exception
\* leaves batch_resize; otherwise the directory of the first output is returned.
ResizeStage ==
    /\ ppc = "resize"
    /\ IF images = <<>>
       THEN /\ ppc' = "raised"
            /\ raised_by' = "unpack"
            /\ UNCHANGED <<fs, dirs, upscaled_dir, resized>>
       ELSE LET outs == Outs(images, "upscaled", "png")
            IN  \E W \in SUBSET Range(outs) :
                    /\ fs' = StageFs(fs, W)
                    /\ dirs' = PlanDirs(dirs, outs, 1)
                    /\ resized' = W
                    /\ \/ /\ ppc' = "avif"
                          /\ upscaled_dir' = Dirname(outs[1])
                          /\ UNCHANGED raised_by
                       \/ /\ ppc' = "raised"
                          /\ raised_by' = "batch_resize"
                          /\ UNCHANGED upscaled_dir
    /\ UNCHANGED <<batch, reprocess, packs, pack_idx, images, cwd, compress_dir, archFailed, avif_in, avif_root, zip_dir>>

\* batch_transcode(list_files(upscaled_dir, [".png"], True), "avif", bool_env["overwrite"], 1)
AvifStage ==
    /\ ppc = "avif"
    /\ \E ins \in ListFiles(fs, upscaled_dir, {"png"}) :
        LET outs == Outs(ins, "avif", "avif")
        IN  /\ \E W \in SUBSET Range(outs) :
                /\ fs' = StageFs(fs, W)
                /\ dirs' = PlanDirs(dirs, outs, 1)
            /\ avif_in' = ins
            /\ avif_root' = IF ins = <<>> THEN <<>> ELSE << outs[1].dir[1] >>
    /\ ppc' = IF reprocess THEN "zip" ELSE "7z"
    /\ UNCHANGED <<batch, reprocess, packs, pack_idx, raised_by, images, upscaled_dir, cwd, compress_dir,
                   archFailed, resized, zip_dir>>

\* single_compress, first half: os.chdir(input_path) raises FileNotFoundError
\* when the directory does not exist.
CompressEnter(input_path, inside) ==
    /\ compress_dir' = input_path
    /\ IF cwd \o input_path \in dirs
       THEN /\ cwd' = cwd \o input_path
            /\ ppc' = inside
            /\ UNCHANGED raised_by
       ELSE /\ ppc' = "raised"
            /\ raised_by' = "single_compress"
            /\ UNCHANGED cwd

\* jxl_dir = pack + "_jxl"; single_compress(jxl_dir, pack, "7z", ...)
Archive7z ==
    /\ ppc = "7z"
    /\ CompressEnter(StageDir(packs[pack_idx], "jxl"), "in7z")
    /\ UNCHANGED <<batch, fs, dirs, reprocess, packs, pack_idx, images, upscaled_dir, history>>

\* avif_dir = upscaled_dir + "_avif"; single_compress(avif_dir, pack, "zip", [".avif"])
ArchiveZip ==
    /\ ppc = "zip"
    /\ zip_dir' = AvifDir(upscaled_dir)
    /\ CompressEnter(AvifDir(upscaled_dir), "inzip")
    /\ UNCHANGED <<batch, fs, dirs, reprocess, packs, pack_idx, images, upscaled_dir,
                   archFailed, resized, avif_in, avif_root>>

\* A working directory that goes up one level whatever the input path.
CompressDepth_One(input_path) == 1

\* depth = len(os.path.normpath(input_path).split(os.sep))
CompressDepth(input_path) == Len(input_path)

\* A return value that never reports a failure.
CompressFailed_Never(code) == FALSE

\* if cmd.returncode != 0: return input_path; the caller tests it against ""
CompressFailed(code) == code /= 0

\* single_compress, second half: 7z writes ../<pack>.<format>, the working
\* directory goes up by the depth of input_path, and the caller removes the
\* directory unless single_compress returned it as failed.
CompressExit ==
    /\ ppc \in {"in7z", "inzip", "incall"}
    /\ \E code \in {0, 1} :
        LET input_path == compress_dir
            depth == CompressDepth(input_path)
            archive == Path(SubSeq(cwd, 1, Len(cwd) - 1), packs[pack_idx],
                            << IF ppc = "inzip" THEN "zip" ELSE "7z" >>)
            written == IF code = 0 THEN Put(fs, archive, "full") ELSE fs
        IN  /\ cwd' = SubSeq(cwd, 1, Max(Len(cwd) - depth, 0))
            /\ archFailed' = IF code /= 0 THEN archFailed \cup {input_path} ELSE archFailed
            /\ IF ppc = "incall" \/ CompressFailed(code)
               THEN /\ fs' = written
                    /\ UNCHANGED dirs
               ELSE /\ fs' = RmTreeFs(written, cwd' \o input_path)
                    /\ dirs' = RmTreeDirs(dirs, cwd' \o input_path)
    /\ ppc' = IF ppc = "in7z" THEN "zip" ELSE IF ppc = "inzip" THEN "notify" ELSE "called"
    /\ UNCHANGED <<batch, reprocess, packs, pack_idx, raised_by, images, upscaled_dir,
                   compress_dir, resized, avif_in, avif_root, zip_dir>>

\* notify(pack, "... finished processing"), the last statement of the loop body
PackNotify ==
    /\ ppc = "notify"
    /\ ppc' = IF pack_idx = Len(packs) THEN "final" ELSE "loop"
    /\ UNCHANGED <<batch, fs, dirs, reprocess, packs, pack_idx, raised_by, images, upscaled_dir, cwd, compress_dir, history>>

\* metadata.json is rewritten, then notify("Finished processing", ...)
FinalNotify ==
    /\ ppc = "final"
    /\ fs' = Put(fs, MetadataJson, "full")
    /\ ppc' = "done"
    /\ UNCHANGED <<batch, dirs, reprocess, packs, pack_idx, raised_by, images, upscaled_dir, cwd, compress_dir, history>>

\* requests.post / requests.patch raises (no network, bad webhook): notify and
\* update_discord_progress have no handler and neither has multiple_pack.
NotifierRaises ==
    /\ ppc \in {"png", "jxl", "resize", "avif", "7z", "zip", "notify", "final"}
    /\ ppc' = "raised"
    /\ raised_by' = "notifier"
    /\ fs' = IF ppc = "final" THEN Put(fs, MetadataJson, "full") ELSE fs
    /\ UNCHANGED <<batch, dirs, reprocess, packs, pack_idx, images, upscaled_dir, cwd, compress_dir, history>>

NextPack ==
    \/ PackList
    \/ PngStage
    \/ JxlStage
    \/ ResizeStage
    \/ AvifStage
    \/ Archive7z
    \/ ArchiveZip
    \/ CompressExit
    \/ PackNotify
    \/ FinalNotify
    \/ NotifierRaises

SpecPack == InitPack /\ [][NextPack]_vars

\* --------------------------------------------------------- single_compress
\* The relative directories single_compress is called on: a, b, a/a, a/b, ...
CompressDirs == UNION { [1..n -> { <<"a">>, <<"b">> }] : n \in 1..MaxDepth }

\* No batch call is in progress.
IdleBatch ==
    /\ kind = "pack"
    /\ input_paths = <<>>
    /\ format = "png"
    /\ overwrite = FALSE
    /\ threads = 1
    /\ target_width = 0
    /\ target_height = 0
    /\ image = [p \in {} |-> Garbage]
    /\ callState = "idle"
    /\ output_paths = <<>>
    /\ pc = <<>>
    /\ result = <<>>
    /\ log = <<>>
    /\ rc = <<>>
    /\ dims = <<>>
    /\ return_data = EmptyReport
    /\ failed = <<>>
    /\ ret = <<>>
    /\ run = 1
    /\ prev = <<>>

\* single_compress(input_path, "p", "7z") about to be called on a relative
\* directory, which may or may not exist.
InitCompress ==
    /\ IdleBatch
    /\ reprocess = FALSE
    /\ packs = <<"p">>
    /\ pack_idx = 1
    /\ ppc = "call"
    /\ raised_by = ""
    /\ images = <<>>
    /\ upscaled_dir = <<>>
    /\ cwd = <<>>
    /\ compress_dir \in CompressDirs
    /\ dirs \in { {} } \cup { MakeDirs({}, d) : d \in CompressDirs }
    /\ fs = [f \in { Path(d, "x", <<"jxl">>) : d \in dirs } |-> "full"]
    /\ archFailed = {}
    /\ resized = {}
    /\ avif_in = <<>>
    /\ avif_root = <<>>
    /\ zip_dir = <<>>

\* single_compress(input_path, ...) is entered.
CompressCall ==
    /\ ppc = "call"
    /\ CompressEnter(compress_dir, "incall")
    /\ UNCHANGED <<batch, fs, dirs, reprocess, packs, pack_idx, images, upscaled_dir, history>>

NextCompress == CompressCall \/ CompressExit

SpecCompress == InitCompress /\ [][NextCompress]_vars

\* ================================================================== claims
Done(i) == pc[i] \in {"finished", "collected"}

Ran(i) == log[i] /= <<>>

Verified(f, p) == Exists(f, p) /\ f[p] = "full"

\* ---- C1
\* The step in which a transcode helper returns after its process has ended
\* decides by the output artifact alone.
C1_VerifyStep ==
    \A i \in Items :
        (kind = "transcode" /\ pc[i] = "exited" /\ pc'[i] = "finished") =>
            IF Verified(fs, output_paths[i])
            THEN result'[i] = Returned("", StrVal(""))
            ELSE result'[i] = Returned("failed", PathVal(input_paths[i]))

\* The returned failed list holds exactly the inputs whose helper said "failed".
C1_Report ==
    (kind = "transcode" /\ callState = "returned") =>
        \A i \in Items :
            /\ result[i].status = "failed" <=> PathVal(input_paths[i]) \in Range(ret[1])
            /\ result[i].status = "" => PathVal(input_paths[i]) \notin Range(ret[1]) \cup Range(ret[2])

\* C1: in batch_transcode a file that is not skipped is reported successful if
\* and only if, once the transcoder process has returned, its output path exists
\* with a size greater than zero; the exit code has no influence, and a file
\* that fails this test is put in the failed list.
C1_VerifyByArtifact == [][C1_VerifyStep]_vars /\ []C1_Report

\* A non-zero exit reported as success next to a zero exit reported as failed.
C1_Witness ==
    /\ kind = "transcode"
    /\ callState = "returned"
    /\ \E i, j \in Items :
        /\ Ran(i) /\ rc[i] = 1 /\ result[i].status = ""
        /\ Ran(j) /\ rc[j] = 0 /\ result[j].status = "failed"
        /\ ~Exists(fs, output_paths[j])

\* ---- C2
C2_VerifyStep ==
    \A i \in Items :
        (/\ kind = "resize"
         /\ pc[i] \in {"downscaled", "upscaled", "renamed"}
         /\ pc'[i] = "finished"
         /\ result'[i].exc = "") =>
            (result'[i].ok <=> Verified(fs, output_paths[i]))

\* C2: in the resize stage too (direct downscale, upscale, corrective
\* downscale) a file is reported successful if and only if its output path
\* exists and its size is greater than zero.
C2_UniformVerification == [][C2_VerifyStep]_vars

\* ---- C3
\* C3: an exception raised by one item's operation never leaves the batch
\* call: the call returns a report, in which that item is recorded as failed.
C3_WorkerIsolation ==
    /\ callState /= "raised"
    /\ callState = "returned" =>
        \A i \in Items : result[i].exc /= "" => Len(ret) = 2 /\ Len(ret[1]) >= 1

\* ---- C4
\* C4: every item's operation is started once, and the call, once every
\* process has ended, returns a report that accounts for every item with
\* exactly one outcome.
C4_EveryItemOnce ==
    (callState \in {"returned", "raised"} /\ input_paths /= <<>>) =>
        /\ callState = "returned"
        /\ \A i \in Items : pc[i] = "collected" /\ Outcome(i) \in {"failed", "skipped", "success"}
        /\ Len(ret) = 2
        /\ Len(ret[1]) = Cardinality({ i \in Items : Outcome(i) = "failed" })
        /\ kind = "transcode" => Len(ret[2]) = Cardinality({ i \in Items : Outcome(i) = "skipped" })

\* ---- C5
\* C5: at most `threads` operations have started and not yet finished, and
\* with threads = 1 item j starts only after every earlier item has finished.
C5_BoundedConcurrency ==
    /\ Cardinality(Active) <= threads
    /\ threads = 1 =>
        \A i, j \in Items : (i < j /\ pc[j] \notin {"idle", "queued"}) => Done(i)

\* The pool is full while a task is still queued.
C5_Witness ==
    /\ Pooled
    /\ Cardinality(Active) = threads
    /\ \E i \in Items : pc[i] = "queued"

\* ---- C6
AllSkipped ==
    /\ \A i \in Items : ~Ran(i)
    /\ callState = "returned" =>
        /\ ret[1] = <<>>
        /\ Len(ret[2]) = Len(input_paths)
        /\ \A i \in Items : PathVal(input_paths[i]) \in Range(ret[2])

\* C6 as stated: a second run with overwrite=false spawns no process and
\* reports every input as skipped.
C6_SkipIdempotence ==
    (kind = "transcode" /\ ~overwrite /\ run >= 2 /\ callState /= "idle") => AllSkipped

\* C6 amended: a second run with overwrite=false after a run that reported no
\* failed file spawns no process and reports every input as skipped.
C6_SkipAfterCleanRun ==
    (/\ kind = "transcode" /\ ~overwrite /\ run >= 2 /\ callState /= "idle"
     /\ \A i \in Items : prev[i] /= "failed") => AllSkipped

\* A second run that returned after a first run that transcoded every file.
C6_Witness ==
    /\ kind = "transcode" /\ ~overwrite /\ run = 2 /\ callState = "returned"
    /\ Len(input_paths) >= 2
    /\ \A i \in Items : prev[i] = "success"
    /\ Len(ret[2]) = Len(input_paths)

\* ---- C7
\* C7: a file reported failed by one run is transcoded again by the next run
\* with overwrite=false, and is not reported skipped by it.
C7_SafeResume ==
    (kind = "transcode" /\ ~overwrite /\ run >= 2) =>
        \A i \in Items :
            (prev[i] = "failed" /\ Done(i)) => (Ran(i) /\ result[i].status /= "skipped")

\* ---- C8
\* C8: on an empty input list both stages return an empty report of the shape
\* of a non-empty run's report (a pair), spawn nothing and create no directory.
C8_EmptyInput ==
    (callState = "returned" /\ input_paths = <<>>) =>
        /\ Len(ret) = 2
        /\ \A k \in 1..Len(ret) : ret[k] = <<>>
        /\ dirs = InitDirs

\* ---- C9
\* C9: the scale passed to the upscaler is at most 4.
C9_ScaleClamp ==
    \A i \in Items : \A k \in 1..Len(log[i]) :
        log[i][k].tool = "realesrgan-ncnn-vulkan" => log[i][k].scale <= 4

\* ---- C10
\* C10: with target_width = 0 and target_height = 0 no process of any kind is
\* spawned, and every file whose output does not exist is reported failed.
C10_FastFail ==
    (kind = "resize" /\ target_width = 0 /\ target_height = 0) =>
        \A i \in Items :
            /\ ~Ran(i)
            /\ (Done(i) /\ ~Exists(fs, output_paths[i])) => Outcome(i) = "failed"

\* ---- C11
\* C11: distinct input files of one batch are given distinct output paths, so
\* no two workers of a batch ever work on the same output path.
C11_DistinctOutputs ==
    callState \in {"running", "unwinding"} =>
        \A i, j \in Items :
            (i /= j /\ input_paths[i] /= input_paths[j]) => output_paths[i] /= output_paths[j]

\* ---- C12
\* C12: a directory whose archive step reported a non-zero exit is not
\* removed, and multiple_pack, once it has ended, has started every pack of
\* its list although an archive step failed.
C12_ArchiveFailureContained ==
    /\ \A d \in archFailed : d \in dirs
    /\ (archFailed /= {} /\ ppc \in {"done", "raised"}) => pack_idx = Len(packs)

\* ---- C13
\* C13: multiple_pack is never left by an exception of notify or
\* update_discord_progress.
C13_NotifierNeverFails ==
    ppc = "raised" => raised_by /= "notifier"

\* ---- C14
\* C14: once the avif stage of a pack has run, every file its resize stage
\* wrote was enumerated as avif input; and the directory handed to the zip
\* archive step is the directory the avif outputs were planned under.
C14_StageThreading ==
    /\ ppc \in {"7z", "in7z", "zip", "inzip", "notify"} => resized \subseteq Range(avif_in)
    /\ (zip_dir /= <<>> /\ avif_root /= <<>>) => zip_dir = avif_root

\* ---- C15
\* No other item of the batch has item i's output path.
SoleOutput(i) == \A j \in Items : j /= i => output_paths[j] /= output_paths[i]

\* single_upscale has invoked the upscaler for item i.
Upscaled(i) == Len(log[i]) >= 3 /\ log[i][3].tool = "realesrgan-ncnn-vulkan"

\* C15: single_upscale ends with a result value, never an exception; the value
\* is success if and only if the canonical output path exists, and a failure
\* after an upscaler that produced nothing (no corrective downscale was run)
\* does not carry the reason of a failed corrective downscale.
C15_UpscaleOutcome ==
    \A i \in Items :
        (kind = "resize" /\ Done(i) /\ Upscaled(i) /\ SoleOutput(i)) =>
            /\ result[i].exc = ""
            /\ result[i].ok <=> Exists(fs, output_paths[i])
            /\ (~result[i].ok /\ Len(log[i]) = 3) =>
                   result[i].val /= StrVal("Downscaling after upscaling failed")

\* ---- C16
\* C16: with format avif at most one transcoder runs at any time, whatever the
\* thread count asked for; with jxl and png the thread count asked for is the
\* bound: it is never exceeded, and a queued file starts while fewer run.
C16_AvifSequential ==
    kind = "transcode" =>
        /\ format = "avif" => Cardinality(Active) <= 1
        /\ format \in {"jxl", "png"} =>
            /\ Cardinality(Active) <= threads
            /\ (/\ threads > 1 /\ callState = "running"
                /\ Cardinality(Active) < threads
                /\ \E i \in Items : pc[i] = "queued") =>
                   ENABLED (\E i \in Items : TranscodeStart(i))

\* An avif batch asked to use several threads, one transcoder running, one file waiting.
C16_Witness ==
    /\ kind = "transcode" /\ format = "avif" /\ threads > 1
    /\ Cardinality(Active) = 1
    /\ \E i \in Items : pc[i] = "queued"

\* ---- C17
C17_Step ==
    \A i \in Items :
        (/\ kind = "resize"
         /\ pc[i] \in {"correcting", "corrected", "removed", "renamed"}
         /\ SoleOutput(i)
         /\ Verified(fs, output_paths[i])) =>
            Verified(fs', output_paths[i])

\* C17: from the moment the corrective downscale starts on a complete upscaled
\* file, the canonical output path holds a complete file in every state: the
\* intermediate is never deleted without a corrected file taking its place.
C17_AtomicReplace == [][C17_Step]_vars

\* ---- C18
ToolsOf(i) == [k \in 1..Len(log[i]) |-> log[i][k].tool]

\* C18: in width-only mode, for a file that is not skipped and whose probes
\* succeed: if width >= target_width exactly one downscale runs and no
\* upscaler; otherwise the upscaler runs once with scale
\* ceil(target_width / width), followed by the corrective downscale if and
\* only if width * scale > target_width.
C18_WidthOnlyPlan ==
    (kind = "resize" /\ target_width > 0 /\ target_height = 0) =>
        \A i \in Items :
            (Done(i) /\ Ran(i) /\ dims[i][1] > 0 /\ result[i].val /= StrVal("stderr")) =>
                LET w == dims[i][1]
                    scale == (target_width + w - 1) \div w
                IN  IF w >= target_width
                    THEN /\ ToolsOf(i) = <<"ffprobe", "ffmpeg">>
                         /\ log[i][2].filter = <<target_width, -1>>
                    ELSE /\ ToolsOf(i) = <<"ffprobe", "ffprobe", "realesrgan-ncnn-vulkan">>
                                          \o (IF w * scale > target_width THEN <<"ffmpeg">> ELSE <<>>)
                         /\ log[i][3].scale = scale

\* One batch with a directly downscaled file and an upscaled, corrected file.
C18_Witness ==
    /\ kind = "resize" /\ target_width > 0 /\ target_height = 0
    /\ \E i, j \in Items :
        /\ Done(i) /\ dims[i][1] >= target_width /\ Len(log[i]) = 2
        /\ Done(j) /\ dims[j][1] > 0 /\ dims[j][1] < target_width /\ Len(log[j]) = 4

\* ---- C19
ReportSize == Len(return_data["failed"]) + Len(return_data["skipped"]) + Len(return_data[""]) + Len(failed)

C19_Step ==
    (return_data' /= return_data \/ failed' /= failed) =>
        \/ callState' = "idle"
        \/ /\ ReportSize' = ReportSize + 1
           /\ \E i \in Items :
               /\ pc[i] = "finished" /\ pc'[i] = "collected"
               /\ \A j \in Items : j /= i => pc'[j] = pc[j]
               /\ result' = result

\* C19: the report changes only in a step of the coordinating thread that
\* folds one finished task's outcome into it; no step of a worker changes it.
C19_SingleWriter == [][C19_Step]_vars

\* The report already holds an outcome while a worker is still running.
C19_Witness ==
    /\ Pooled
    /\ ReportSize >= 1
    /\ Active /= {}

\* ---- C20
\* C20: when the batch call has given control back, by returning or by
\* raising, every submitted task has finished and no process is running.
C20_JoinBeforeReturn ==
    callState \in {"returned", "raised"} => \A i \in Items : Done(i)

\* The call raised, and a sibling of the raising task ran its process to the end.
C20_Witness ==
    /\ callState = "raised"
    /\ \E i \in Items : pc[i] = "finished" /\ Ran(i) /\ result[i].exc = "" /\ Len(log[i]) >= 2

\* ---- C21
RECURSIVE ProducedWidth(_, _, _)
\* The width of the image at the output path after the first n processes of
\* procs ran on an input of width w, each doing what its command line asks:
\* the upscaler multiplies the input's width by -s, ffmpeg's scale=<tw>:-1
\* makes the width tw, ffprobe writes nothing. 0 stands for no image, -1 for a
\* width that follows from the aspect ratio.
ProducedWidth(w, procs, n) ==
    IF n = 0 THEN 0
    ELSE LET p == procs[n]
         IN  IF p.tool = "realesrgan-ncnn-vulkan" THEN w * p.scale
             ELSE IF p.tool = "ffmpeg" THEN p.filter[1]
             ELSE ProducedWidth(w, procs, n - 1)

\* C21: in width-only mode, for a probed width > 0, when the call reports
\* success for a file and a complete file is at the output path, the image
\* the tools were asked to produce there has width exactly target_width; and
\* the upscaler is never asked for a width below target_width.
C21_ExactTargetWidth ==
    (kind = "resize" /\ WidthOnly(target_width, target_height)) =>
        \A i \in Items :
            /\ \A n \in 1..Len(log[i]) :
                   log[i][n].tool = "realesrgan-ncnn-vulkan" =>
                       dims[i][1] * log[i][n].scale >= target_width
            /\ (/\ Done(i) /\ Ran(i) /\ dims[i][1] > 0
                /\ result[i].exc = "" /\ result[i].ok
                /\ Verified(fs, output_paths[i])) =>
                   ProducedWidth(dims[i][1], log[i], Len(log[i])) = target_width

\* A file that was upscaled beyond the target and corrected down, reported as success.
C21_Witness ==
    /\ kind = "resize" /\ WidthOnly(target_width, target_height)
    /\ \E i \in Items :
        /\ Done(i) /\ result[i].ok /\ Verified(fs, output_paths[i])
        /\ Len(log[i]) = 4
        /\ dims[i][1] * log[i][3].scale > target_width

\* ---- C22
\* C22: every scale batch_resize's helper makes single_upscale pass to the
\* upscaler, for probed dimensions > 0, is at least 2, and the model is
\* realesrgan-x4plus-anime exactly when the scale is 4.
C22_ScaleAtLeastTwo ==
    kind = "resize" =>
        \A i \in Items : \A n \in 1..Len(log[i]) :
            log[i][n].tool = "realesrgan-ncnn-vulkan" =>
                /\ log[i][n].scale >= 2
                /\ log[i][n].model = "realesrgan-x4plus-anime" <=> log[i][n].scale = 4

\* The upscaler was run with scale 4 for a request with both targets set.
C22_Witness ==
    /\ kind = "resize" /\ target_width > 0 /\ target_height > 0
    /\ \E i \in Items :
        /\ Len(log[i]) >= 3
        /\ log[i][3].tool = "realesrgan-ncnn-vulkan"
        /\ log[i][3].scale = 4
        /\ log[i][3].model = "realesrgan-x4plus-anime"

\* ---- C23
C23_Step ==
    \A d \in dirs \ dirs' :
        /\ ppc \in {"in7z", "inzip"}
        /\ IsPrefix(compress_dir, d)
        /\ archFailed' = archFailed

\* C23: a directory disappears only in the step in which single_compress
\* returns success for it; and a directory for which the archiver exited
\* non-zero exists in every later state, the end of the pipeline included.
C23_DeleteOnlyAfterSuccess ==
    /\ [][C23_Step]_vars
    /\ [](\A d \in archFailed : d \in dirs)

\* The pipeline ended with one stage directory archived and removed and
\* another kept because its archive step failed.
C23_Witness ==
    /\ ppc = "done"
    /\ ~reprocess
    /\ archFailed /= {}
    /\ \E n \in 1..Len(packs) : StageDir(packs[n], "jxl") \notin dirs

\* ---- C24
\* C24: outside single_compress the working directory is the one the process
\* started in: after the call, whatever the depth of the relative input
\* directory and the archiver's exit code, and also when os.chdir raised.
C24_CwdRestored ==
    ppc \notin {"in7z", "inzip", "incall"} => cwd = <<>>

\* single_compress returned from a directory more than one level deep.
C24_Witness ==
    /\ ppc = "called"
    /\ Len(compress_dir) >= 2
    /\ cwd = <<>>

====
